---- MODULE Spec2Model ----
(***************************************************************************)
(* ShapeTracker (tinygrad/shape/shapetracker.py): a stack of views over a  *)
(* flat buffer, its movement operations, merge_views / simplify, the       *)
(* index-expression derivation and real_strides / real_size.               *)
(*                                                                         *)
(* The View record and the symbolic Node algebra live in other modules of  *)
(* the repository (tinygrad/shape/view.py, tinygrad/shape/symbolic.py).    *)
(* A Node is modelled by its denotation: a function from the valuations of *)
(* the index variables to its value.  Node.max is the largest value, and   *)
(* Node.vars() the variables the value depends on.                         *)
(***************************************************************************)
EXTENDS Integers, Sequences, FiniteSets, TLC

\* ------------------------------------------------------------------ bounds
MaxRank == 2
MaxSize == 6
MaxViews == 3
MaxPad == 1
MaxMul == 2
MaxOps == 3

VARIABLES views, prev, op, t1, phase, nreshape, nops

vars == <<views, prev, op, t1, phase, nreshape, nops>>

\* ----------------------------------------------------------------- helpers
NoMask == <<>>

RECURSIVE prod(_)
prod(s) == IF s = <<>> THEN 1 ELSE Head(s) * prod(Tail(s))

RECURSIVE SumSeq(_)
SumSeq(s) == IF s = <<>> THEN 0 ELSE Head(s) + SumSeq(Tail(s))

Abs(x) == IF x < 0 THEN -x ELSE x

Min(a, b) == IF a < b THEN a ELSE b

Max(a, b) == IF a > b THEN a ELSE b

\* acc at dimension d of the loops that walk reversed(shape): the product of
\* the sizes of all dimensions after d
AccAfter(shape, d) == prod(SubSeq(shape, d + 1, Len(shape)))

Shapes == UNION {{s \in [1..n -> 1..MaxSize] : prod(s) <= MaxSize} : n \in 1..MaxRank}

\* every multi-index of a shape (one value per index variable idx0..idxN-1)
Box(shape) == {i \in [1..Len(shape) -> 0..MaxSize] : \A d \in 1..Len(shape) : i[d] < shape[d]}

Perms(n) == {p \in [1..n -> 1..n] : \A i, j \in 1..n : p[i] = p[j] => i = j}

\* -------------------------------------------------------------------- View
strides_for_shape(shape) ==
  [d \in 1..Len(shape) |-> IF shape[d] = 1 THEN 0 ELSE AccAfter(shape, d)]

filter_strides(shape, strides) ==
  [d \in 1..Len(shape) |-> IF shape[d] = 1 THEN 0 ELSE strides[d]]

FullMask(shape, mask) == \A d \in 1..Len(shape) : mask[d] = <<0, shape[d]>>

View_create(shape, strides, offset, mask) ==
  LET st == filter_strides(shape, strides)
      m  == IF mask # NoMask /\ FullMask(shape, mask) THEN NoMask ELSE mask
  IN [shape |-> shape, strides |-> st, offset |-> offset, mask |-> m,
      contiguous |-> (offset = 0 /\ m = NoMask /\ st = strides_for_shape(shape))]

View_identity(shape) == View_create(shape, strides_for_shape(shape), 0, NoMask)

\* __unsafe_resize: arg[d] = <<lo, hi>> in the coordinates of the old view
View_resize(v, arg, mask) ==
  LET n == Len(v.shape)
      offset == SumSeq([d \in 1..n |-> v.strides[d] * arg[d][1]])
      nmask == [d \in 1..n |->
                 <<Max(0, Min(v.mask[d][1] - arg[d][1], arg[d][2] - arg[d][1])),
                   Max(0, Min(v.mask[d][2] - arg[d][1], arg[d][2] - arg[d][1]))>>]
      m == IF v.mask # NoMask
           THEN (IF mask # NoMask
                 THEN [d \in 1..n |-> <<Max(nmask[d][1], mask[d][1]), Min(nmask[d][2], mask[d][2])>>]
                 ELSE nmask)
           ELSE mask
  IN View_create([d \in 1..n |-> arg[d][2] - arg[d][1]], v.strides, v.offset + offset, m)

View_pad(v, arg) ==
  IF \E d \in 1..Len(arg) : arg[d][1] # 0 \/ arg[d][2] # 0
  THEN View_resize(v, [d \in 1..Len(arg) |-> <<-arg[d][1], v.shape[d] + arg[d][2]>>],
                      [d \in 1..Len(arg) |-> <<arg[d][1], v.shape[d] + arg[d][1]>>])
  ELSE v

View_shrink(v, arg) == View_resize(v, arg, NoMask)

View_expand_ok(v, new_shape) ==
  /\ Len(new_shape) = Len(v.shape)
  /\ \A d \in 1..Len(v.shape) :
       v.shape[d] = new_shape[d] \/ (v.shape[d] = 1 /\ v.strides[d] = 0)

View_expand(v, new_shape) ==
  LET n == Len(v.shape)
      m == IF v.mask = NoMask THEN NoMask
           ELSE [d \in 1..n |->
                  IF v.shape[d] # new_shape[d]
                  THEN (IF v.mask[d] = <<0, 1>> THEN <<0, new_shape[d]>> ELSE <<0, 0>>)
                  ELSE v.mask[d]]
  IN View_create(new_shape, v.strides, v.offset, m)

View_permute(v, axis) ==
  LET n == Len(v.shape)
  IN View_create([d \in 1..n |-> v.shape[axis[d]]], [d \in 1..n |-> v.strides[axis[d]]], v.offset,
                 IF v.mask = NoMask THEN NoMask ELSE [d \in 1..n |-> v.mask[axis[d]]])

CeilDiv(a, m) == (a + (m - 1)) \div m

View_stride(v, mul) ==
  LET n == Len(v.shape)
      offset == SumSeq([d \in 1..n |-> IF mul[d] < 0 THEN (v.shape[d] - 1) * v.strides[d] ELSE 0])
      m == IF v.mask = NoMask THEN NoMask
           ELSE [d \in 1..n |->
                  <<CeilDiv(IF mul[d] > 0 THEN v.mask[d][1] ELSE v.shape[d] - v.mask[d][2], Abs(mul[d])),
                    CeilDiv(IF mul[d] > 0 THEN v.mask[d][2] ELSE v.shape[d] - v.mask[d][1], Abs(mul[d]))>>]
  IN View_create([d \in 1..n |-> CeilDiv(v.shape[d], Abs(mul[d]))],
                 [d \in 1..n |-> v.strides[d] * mul[d]], v.offset + offset, m)

\* reshape of one view: <<TRUE, view>> or <<FALSE, _>> for "no result"
View_reshape(v, new_shape) ==
  IF v.shape = new_shape THEN <<TRUE, v>>
  ELSE IF v.contiguous THEN <<TRUE, View_identity(new_shape)>>
  ELSE <<FALSE, v>>

\* _merge_dims(shape, strides): <<size, stride>> of each run of dimensions
\* that one stride walks; unit dimensions are skipped
RECURSIVE merge_dims_from(_, _, _, _, _)
merge_dims_from(shape, strides, d, ret, merging) ==
  IF d > Len(shape) THEN ret
  ELSE IF shape[d] = 1 THEN merge_dims_from(shape, strides, d + 1, ret, merging)
  ELSE LET last == ret[Len(ret)]
           nxt == IF merging \/ last[2] = shape[d] * strides[d]
                  THEN [ret EXCEPT ![Len(ret)] = <<last[1] * shape[d], strides[d]>>]
                  ELSE Append(ret, <<shape[d], strides[d]>>)
       IN merge_dims_from(shape, strides, d + 1, nxt, FALSE)

merge_dims(shape, strides) ==
  IF shape = <<>> THEN <<>>
  ELSE merge_dims_from(shape, strides, 2, <<(<<shape[1], strides[1]>>)>>,
                       strides[1] = 0 /\ shape[1] = 1)

\* ------------------------------------------------ symbolic Node (denotation)
\* Node.max of an integer expression
NodeMax(f) == CHOOSE m \in {f[x] : x \in DOMAIN f} : \A x \in DOMAIN f : f[x] <= m

\* Node.max of a boolean expression (a conjunction of comparisons): 0 or 1
ValidMax(f) == IF \E x \in DOMAIN f : f[x] THEN 1 ELSE 0

\* the multi-index i moved one step along dimension d
Step(i, d) == [i EXCEPT ![d] = i[d] + 1]

\* Node.vars(): the index variables (by dimension) the expression depends on
Rank(f) == Len(CHOOSE i \in DOMAIN f : TRUE)

NodeVars(f) == {d \in 1..Rank(f) : \E i \in DOMAIN f : Step(i, d) \in DOMAIN f /\ f[Step(i, d)] # f[i]}

\* the variables of terms that are not <variable> * <constant>
BadVars(f) ==
  {d \in 1..Rank(f) : \E i, j \in DOMAIN f :
     /\ Step(i, d) \in DOMAIN f /\ Step(j, d) \in DOMAIN f
     /\ f[Step(i, d)] - f[i] # f[Step(j, d)] - f[j]}

\* the constant b of the term <variable d> * b
Coef(f, d) == LET i == CHOOSE i \in DOMAIN f : Step(i, d) \in DOMAIN f IN f[Step(i, d)] - f[i]

Some(x) == [def |-> TRUE, st |-> x]

None == [def |-> FALSE, st |-> 0]

\* ------------------------------------------------------- module functions
\* expr_node_mask with the upper end of the mask range taken as valid
expr_node_mask_incl(view, idx, valid) ==
  /\ valid
  /\ view.mask # NoMask =>
       \A d \in 1..Len(view.shape) :
         view.mask[d] # <<0, view.shape[d]>> =>
           LET base == (idx \div AccAfter(view.shape, d)) % view.shape[d]
           IN base >= view.mask[d][1] /\ base <= view.mask[d][2]

expr_node_mask(view, idx, valid) ==
  /\ valid
  /\ view.mask # NoMask =>
       \A d \in 1..Len(view.shape) :
         view.mask[d] # <<0, view.shape[d]>> =>
           LET base == (idx \div AccAfter(view.shape, d)) % view.shape[d]
           IN base >= view.mask[d][1] /\ base < view.mask[d][2]

RECURSIVE expr_node_terms(_, _, _, _)
expr_node_terms(md, k, acc, idx) ==
  IF k = 0 THEN 0
  ELSE ((idx \div acc) % md[k][1]) * md[k][2] + expr_node_terms(md, k - 1, acc * md[k][1], idx)

expr_node(view, idx) ==
  LET md == merge_dims(view.shape, view.strides)
  IN view.offset + expr_node_terms(md, Len(md), 1, idx)

expr_idxs(view, idxs) ==
  view.offset + SumSeq([d \in 1..Len(view.shape) |->
                          IF view.shape[d] # 1 /\ view.strides[d] # 0
                          THEN idxs[d] * view.strides[d] ELSE 0])

\* idxs_to_idx accumulating over shape[:-1] instead of shape[1:]
idxs_to_idx_lead(shape, idxs) ==
  SumSeq([d \in 1..Len(shape) |-> idxs[d] * prod(SubSeq(shape, 1, Len(shape) - d))])

idxs_to_idx(shape, idxs) ==
  SumSeq([d \in 1..Len(shape) |-> idxs[d] * AccAfter(shape, d)])

\* ----------------------------------------------------------- ShapeTracker
from_shape(shape) == <<View_identity(shape)>>

Last(vs) == vs[Len(vs)]

ButLast(vs) == SubSeq(vs, 1, Len(vs) - 1)

contiguous(vs) == Len(vs) = 1 /\ vs[1].contiguous

shape(vs) == Last(vs).shape

\* the loop of _expr_idx over reversed(views[0:-1]); k is the next view down.
\* The validity is folded with the index of the view above, then the index.
RECURSIVE expr_idx_loop(_, _, _, _)
expr_idx_loop(vs, k, idx, valid) ==
  IF k = 0 THEN <<idx, valid>>
  ELSE IF ValidMax(valid) = 0 THEN <<[x \in DOMAIN idx |-> -1], valid>>
  ELSE expr_idx_loop(vs, k - 1,
                     [x \in DOMAIN idx |-> expr_node(vs[k], idx[x])],
                     [x \in DOMAIN idx |-> expr_node_mask(vs[k], idx[x], valid[x])])

ST_expr_idx(vs, idx, valid) == expr_idx_loop(vs, Len(vs) - 1, idx, valid)

\* expr_idxs() with the default variables idx0..idxN-1: the pair
\* <<offset, validity>>, each a function of the multi-index
ST_expr_idxs(vs) ==
  LET b == Box(shape(vs))
  IN ST_expr_idx(vs, [i \in b |-> expr_idxs(Last(vs), i)],
                     [i \in b |-> expr_node_mask(Last(vs), idxs_to_idx(shape(vs), i), TRUE)])

\* expr_node() with the default variable idx in 0..prod(shape)-1
ST_expr_node(vs) ==
  LET r == 0..(prod(shape(vs)) - 1)
  IN ST_expr_idx(vs, [x \in r |-> expr_node(Last(vs), x)],
                     [x \in r |-> expr_node_mask(Last(vs), x, TRUE)])

\* real_size returning the largest offset itself
real_size_max(vs) ==
  IF \E d \in 1..Len(shape(vs)) : shape(vs)[d] = 0 THEN 0
  ELSE NodeMax(ST_expr_idxs(vs)[1])

real_size(vs) ==
  IF \E d \in 1..Len(shape(vs)) : shape(vs)[d] = 0 THEN 0
  ELSE NodeMax(ST_expr_idxs(vs)[1]) + 1

\* real_strides answering a single unmasked view with the row-major strides
real_strides_rowmajor(vs, ignore_valid) ==
  LET n == Len(shape(vs))
  IN IF Len(vs) = 1 /\ Last(vs).mask = NoMask
     THEN [d \in 1..n |-> Some(strides_for_shape(shape(vs))[d])]
     ELSE LET e == ST_expr_idxs(vs)
          IN [d \in 1..n |->
                IF d \in BadVars(e[1]) \/ (d \in NodeVars(e[2]) /\ ~ignore_valid) THEN None
                ELSE IF d \notin NodeVars(e[1]) THEN Some(0)
                ELSE Some(Coef(e[1], d))]

\* real_strides: the fast path for a single unmasked view, else the terms of
\* the offset expression over idx0..idxN-1.  A dimension is None when its
\* variable sits in a term that is not <variable> * b (bad_idx_vars) or in
\* the validity (unless ignore_valid), 0 when the offset does not hold its
\* variable, else the b of its term.
real_strides(vs, ignore_valid) ==
  LET n == Len(shape(vs))
  IN IF Len(vs) = 1 /\ Last(vs).mask = NoMask
     THEN [d \in 1..n |-> Some(Last(vs).strides[d])]
     ELSE LET e == ST_expr_idxs(vs)
          IN [d \in 1..n |->
                IF d \in BadVars(e[1]) \/ (d \in NodeVars(e[2]) /\ ~ignore_valid) THEN None
                ELSE IF d \notin NodeVars(e[1]) THEN Some(0)
                ELSE Some(Coef(e[1], d))]

\* merge_views without the test of vm1.offset
merge_views_any_offset(vm2, vm1) ==
  IF vm1.contiguous /\ vm1.shape = vm2.shape THEN <<TRUE, vm2>>
  ELSE IF vm2.contiguous THEN <<TRUE, vm1>>
  ELSE IF vm2.mask # NoMask THEN <<FALSE, vm1>>
  ELSE LET strides == real_strides(<<vm2, vm1>>, FALSE)
       IN IF \E d \in 1..Len(strides) : ~strides[d].def THEN <<FALSE, vm1>>
          ELSE <<TRUE, View_create(vm1.shape, [d \in 1..Len(strides) |-> strides[d].st],
                                   vm2.offset, vm1.mask)>>

\* merge_views(vm2, vm1): <<TRUE, view>>, or <<FALSE, _>> for None
merge_views(vm2, vm1) ==
  IF vm1.contiguous /\ vm1.shape = vm2.shape THEN <<TRUE, vm2>>
  ELSE IF vm2.contiguous THEN <<TRUE, vm1>>
  ELSE IF vm2.mask # NoMask \/ vm1.offset # 0 THEN <<FALSE, vm1>>
  ELSE LET strides == real_strides(<<vm2, vm1>>, FALSE)
       IN IF \E d \in 1..Len(strides) : ~strides[d].def THEN <<FALSE, vm1>>
          ELSE <<TRUE, View_create(vm1.shape, [d \in 1..Len(strides) |-> strides[d].st],
                                   vm2.offset, vm1.mask)>>

\* simplify that starts merging only above two views
RECURSIVE simplify_above_two(_)
simplify_above_two(vs) ==
  IF Len(vs) > 2 /\ merge_views(vs[Len(vs) - 1], vs[Len(vs)])[1]
  THEN simplify_above_two(Append(SubSeq(vs, 1, Len(vs) - 2), merge_views(vs[Len(vs) - 1], vs[Len(vs)])[2]))
  ELSE vs

RECURSIVE simplify(_)
simplify(vs) ==
  IF Len(vs) >= 2 /\ merge_views(vs[Len(vs) - 1], vs[Len(vs)])[1]
  THEN simplify(Append(SubSeq(vs, 1, Len(vs) - 2), merge_views(vs[Len(vs) - 1], vs[Len(vs)])[2]))
  ELSE vs

RECURSIVE add_from(_, _, _)
add_from(ret, stv, k) ==
  IF k > Len(stv) THEN ret ELSE add_from(simplify(Append(ret, stv[k])), stv, k + 1)

\* __add__ that extends self, not ret, in each round of the loop
add_onto_self(self, st) == simplify(Append(self, st[Len(st)]))

add(self, st) == add_from(self, st, 1)

pad(vs, arg) == Append(ButLast(vs), View_pad(Last(vs), arg))

shrink(vs, arg) == Append(ButLast(vs), View_shrink(Last(vs), arg))

expand(vs, new_shape) == Append(ButLast(vs), View_expand(Last(vs), new_shape))

\* permute that keeps the last view below the permuted one
permute_append(vs, axis) == Append(vs, View_permute(Last(vs), axis))

permute(vs, axis) == Append(ButLast(vs), View_permute(Last(vs), axis))

\* stride that keeps the last view below the strided one
stride_append(vs, mul) == Append(vs, View_stride(Last(vs), mul))

stride(vs, mul) == Append(ButLast(vs), View_stride(Last(vs), mul))

\* getenv("MERGE_VIEW", 1)
MERGE_VIEW == 1

reshape(vs, new_shape) ==
  LET r == View_reshape(Last(vs), new_shape)
  IN IF MERGE_VIEW # 0 /\ r[1] THEN Append(ButLast(vs), r[2]) ELSE Append(vs, View_identity(new_shape))

\* ------------------------------------------------------------ the machine
PadArgs(sh) == [1..Len(sh) -> (0..MaxPad) \X (0..MaxPad)]

Ranges == {r \in (0..MaxSize) \X (0..MaxSize) : r[1] < r[2]}

ShrinkArgs(sh) ==
  {a \in [1..Len(sh) -> {r \in Ranges : \E d \in 1..Len(sh) : r[2] <= sh[d]}] :
     \A d \in 1..Len(sh) : a[d][2] <= sh[d]}

Muls == {-1} \cup (1..MaxMul)

Init ==
  /\ views \in {from_shape(s) : s \in Shapes}
  /\ prev = views
  /\ op = [name |-> "from_shape", arg |-> <<>>]
  /\ t1 = <<>>
  /\ phase = "t1"
  /\ nreshape = 0
  /\ nops = 0

\* the argument of the last operation is kept as a sequence of pairs: the
\* pairs of pad and shrink, and <<x, 0>> for each x of the other arguments
Pairs(a) == [d \in 1..Len(a) |-> <<a[d], 0>>]

Firsts(a) == [d \in 1..Len(a) |-> a[d][1]]

Moved(name, arg, nv) ==
  /\ phase # "sum"
  /\ nops < MaxOps
  /\ nops' = nops + 1
  /\ views' = nv
  /\ prev' = views
  /\ op' = [name |-> name, arg |-> arg]
  /\ UNCHANGED <<t1, phase>>

Pad ==
  \E arg \in PadArgs(shape(views)) :
    /\ prod([d \in 1..Len(arg) |-> arg[d][1] + shape(views)[d] + arg[d][2]]) <= MaxSize
    /\ Moved("pad", arg, pad(views, arg))
    /\ UNCHANGED nreshape

Shrink ==
  \E arg \in ShrinkArgs(shape(views)) :
    /\ Moved("shrink", arg, shrink(views, arg))
    /\ UNCHANGED nreshape

Expand ==
  \E new_shape \in Shapes :
    /\ View_expand_ok(Last(views), new_shape)
    /\ Moved("expand", Pairs(new_shape), expand(views, new_shape))
    /\ UNCHANGED nreshape

Permute ==
  \E axis \in Perms(Len(shape(views))) :
    /\ Moved("permute", Pairs(axis), permute(views, axis))
    /\ UNCHANGED nreshape

Stride ==
  \E mul \in [1..Len(shape(views)) -> Muls] :
    /\ Moved("stride", Pairs(mul), stride(views, mul))
    /\ UNCHANGED nreshape

Reshape ==
  \E new_shape \in Shapes :
    /\ prod(new_shape) = prod(shape(views))
    /\ Len(reshape(views, new_shape)) <= MaxViews
    /\ Moved("reshape", Pairs(new_shape), reshape(views, new_shape))
    /\ nreshape' = nreshape + 1

Simplify ==
  /\ phase # "sum"
  /\ op.name # "simplify"
  /\ views' = simplify(views)
  /\ prev' = views
  /\ op' = [name |-> "simplify", arg |-> <<>>]
  /\ UNCHANGED <<t1, phase, nreshape, nops>>

\* the caller starts a second tracker over the logical shape of the first:
\* the operand t2 of t1 + t2 indexes the buffer that t1 presents
Operand ==
  /\ phase = "t1"
  /\ nops < MaxOps
  /\ nops' = nops + 1
  /\ t1' = views
  /\ phase' = "t2"
  /\ views' = from_shape(shape(views))
  /\ prev' = views
  /\ op' = [name |-> "from_shape", arg |-> <<>>]
  /\ nreshape' = 0

Add ==
  /\ phase = "t2"
  /\ views' = add(t1, views)
  /\ prev' = views
  /\ op' = [name |-> "add", arg |-> <<>>]
  /\ phase' = "sum"
  /\ UNCHANGED <<t1, nreshape, nops>>

Next == Pad \/ Shrink \/ Expand \/ Permute \/ Stride \/ Reshape \/ Simplify \/ Operand \/ Add

Spec == Init /\ [][Next]_vars

\* ------------------------------------------------------------------ claims
\* <<offset, validity>> of a tracker, each a function of the multi-index
Sem(vs) == ST_expr_idxs(vs)

\* the index i satisfies the mask of the view alone
ValidUnder(view, i) == expr_node_mask(view, idxs_to_idx(view.shape, i), TRUE)

Inverse(p) == [d \in 1..Len(p) |-> CHOOSE e \in 1..Len(p) : p[e] = d]

AddExact ==
  phase = "sum" =>
    /\ shape(views) = shape(prev)
    /\ \A i \in Box(shape(prev)) :
         /\ Sem(views)[1][i] = Sem(t1 \o prev)[1][i]
         /\ Sem(views)[2][i] = Sem(t1 \o prev)[2][i]

\* C2 amended: t1 + t2 has the shape of t2, the same validity as the
\* unsimplified stack at every in-range index, and the same offset at every
\* in-range index that is valid.
AddEquivalent ==
  phase = "sum" =>
    /\ shape(views) = shape(prev)
    /\ \A i \in Box(shape(prev)) :
         /\ Sem(views)[2][i] = Sem(t1 \o prev)[2][i]
         /\ Sem(views)[2][i] => Sem(views)[1][i] = Sem(t1 \o prev)[1][i]

\* an addition that merged views, of two trackers that are both not
\* contiguous, with some valid index
AddWitness ==
  /\ phase = "sum"
  /\ ~contiguous(t1)
  /\ ~contiguous(prev)
  /\ Len(views) < Len(t1) + Len(prev)
  /\ \E i \in Box(shape(views)) : Sem(views)[2][i]

\* the addresses of the valid in-range indices
Addresses(vs) == {Sem(vs)[1][i] : i \in {j \in Box(shape(vs)) : Sem(vs)[2][j]}}

\* C3 as stated: every address the tracker produces lies in
\* [0, real_size()), and no smaller length covers them all.
RealSizeMinimal ==
  /\ \A a \in Addresses(views) : 0 <= a /\ a < real_size(views)
  /\ \A n \in 0..(real_size(views) - 1) : \E a \in Addresses(views) : a >= n

\* C3 amended: every address of a valid in-range index lies in
\* [0, real_size()); real_size() is a covering length, not the least one.
RealSizeCovers == \A a \in Addresses(views) : 0 <= a /\ a < real_size(views)

\* a masked, strided tracker of two views with several addresses
RealSizeWitness ==
  /\ Len(views) >= 2
  /\ Last(views).mask # NoMask
  /\ Cardinality(Addresses(views)) >= 2
  /\ real_size(views) >= 3

\* C4: after t.pad(arg) the size of each dimension is before + old + after;
\* an index is valid iff it lies inside the old extent in every dimension and
\* the un-padded index is valid in t; every valid index has the offset t
\* gives to the un-padded index.
PadSemantics ==
  op.name = "pad" =>
    LET arg == op.arg
        sh == shape(prev)
        n == Len(sh)
    IN /\ shape(views) = [d \in 1..n |-> arg[d][1] + sh[d] + arg[d][2]]
       /\ \A i \in Box(shape(views)) :
            LET inside == \A d \in 1..n : arg[d][1] <= i[d] /\ i[d] < arg[d][1] + sh[d]
                u == [d \in 1..n |-> i[d] - arg[d][1]]
            IN /\ Sem(views)[2][i] <=> (inside /\ Sem(prev)[2][u])
               /\ Sem(views)[2][i] => Sem(views)[1][i] = Sem(prev)[1][u]

\* a pad on both sides of a dimension of an already masked, two-view tracker
PadWitness ==
  /\ op.name = "pad"
  /\ \E d \in 1..Len(op.arg) : op.arg[d][1] > 0 /\ op.arg[d][2] > 0
  /\ Len(prev) >= 2
  /\ \E i \in Box(shape(views)) : Sem(views)[2][i]
  /\ \E i \in Box(shape(views)) : ~Sem(views)[2][i]

FromShapeContiguous ==
  /\ op.name = "from_shape" =>
       /\ Len(views) = 1
       /\ contiguous(views)
       /\ views[1].offset = 0 /\ views[1].mask = NoMask
       /\ views[1].strides = strides_for_shape(shape(views))
       /\ real_strides(views, FALSE) = [d \in 1..Len(shape(views)) |-> Some(strides_for_shape(shape(views))[d])]
  /\ (Len(views) = 1 /\ views[1].mask = NoMask) =>
       \A iv \in BOOLEAN :
         real_strides(views, iv) = [d \in 1..Len(shape(views)) |-> Some(views[1].strides[d])]

\* a single unmasked view that is not contiguous, after a movement operation
SingleViewWitness ==
  /\ Len(views) = 1 /\ views[1].mask = NoMask
  /\ ~views[1].contiguous
  /\ views[1].offset # 0
  /\ op.name = "stride"

\* C8: pad, shrink, expand, permute and stride keep the number of views and
\* every view but the last; reshape either does the same or appends the
\* identity view of new_shape to the unchanged views; the stack is never
\* empty and, short of an addition, no longer than 1 + the number of reshapes.
FrameLastView ==
  /\ op.name \in {"pad", "shrink", "expand", "permute", "stride"} =>
       Len(views) = Len(prev) /\ ButLast(views) = ButLast(prev)
  /\ op.name = "reshape" =>
       \/ Len(views) = Len(prev) /\ ButLast(views) = ButLast(prev)
       \/ /\ Len(views) = Len(prev) + 1
          /\ ButLast(views) = prev
          /\ Last(views) = View_identity(Firsts(op.arg))
  /\ Len(views) >= 1
  /\ phase # "sum" => Len(views) <= 1 + nreshape

\* a movement operation that changed the last of two views
FrameWitness ==
  /\ op.name \in {"pad", "shrink", "expand", "permute", "stride"}
  /\ Len(prev) = 2
  /\ Last(views) # Last(prev)

EntryPointsAgree ==
  \A i \in Box(shape(views)) :
    LET f == idxs_to_idx(shape(views), i)
    IN /\ f \in DOMAIN ST_expr_node(views)[1]
       /\ ST_expr_idxs(views)[1][i] = ST_expr_node(views)[1][f]
       /\ ST_expr_idxs(views)[2][i] = ST_expr_node(views)[2][f]
       /\ \A d \in 1..Len(i) : (f \div AccAfter(shape(views), d)) % shape(views)[d] = i[d]

\* a masked two-view tracker over two unequal dimensions with a valid and an
\* invalid index
EntryPointsWitness ==
  /\ Len(views) >= 2
  /\ Len(shape(views)) = 2
  /\ shape(views)[1] > 1 /\ shape(views)[2] > 1 /\ shape(views)[1] # shape(views)[2]
  /\ Last(views).mask # NoMask
  /\ \E i \in Box(shape(views)) : Sem(views)[2][i]
  /\ \E i \in Box(shape(views)) : ~Sem(views)[2][i]

====
